---- MODULE Spec2Model ----
(***************************************************************************)
(* Model of src/format.py: the header/record codec of py-caskdb.            *)
(*                                                                          *)
(* Python integers are unbounded; a 4-byte field reaches 2^32-1, beyond the *)
(* integers TLC evaluates.  An integer n is therefore held as two limbs,    *)
(* <<hi, lo>> with lo \in 0..65535 and n = hi * 65536 + lo; hi carries the  *)
(* sign and everything above 16 bits.  Bytes are 0..255, a bytes object is  *)
(* a sequence of bytes, a str is a sequence of code points.                 *)
(***************************************************************************)
EXTENDS Integers, Sequences, FiniteSets, TLC

VARIABLES
    encFn,    \* last encoder called: "none", "encode_header", "encode_kv"
    args,     \* its arguments <<timestamp, a, b>> (sizes, or key and value)
    encErr,   \* the exception it raised, "none" when it returned
    data,     \* the bytes on the medium (the encoder's output, as stored)
    shape,    \* "exact", "truncated" or "extended": what the medium did to it
    decFn,    \* last decoder called on data: "none", "decode_header", "decode_kv"
    out,      \* its result [err, val]
    prev,     \* <<result>> of decode_header on the buffer before it was extended
    log,      \* stream: concatenated encode_kv outputs
    written,  \* stream: the triples appended, in order
    offset,   \* stream: the reader's offset into log
    hdrs,     \* stream: the headers the reader decoded
    got,      \* stream: the triples the reader decoded
    rdErr     \* stream: the exception that stopped the reader, "none" if none

vars == <<encFn, args, encErr, data, shape, decFn, out, prev,
          log, written, offset, hdrs, got, rdErr>>
codecVars == <<encFn, args, encErr, data, shape, decFn, out, prev>>
streamVars == <<log, written, offset, hdrs, got, rdErr>>

\* ------------------------------------------------------------------ bounds

\* longest key / value (in characters) given to a single encode_kv call
MaxLen == 2
\* longest key / value (in characters) of a stream record
MaxStreamLen == 1
\* most records appended to the stream
MaxRecords == 2

\* ------------------------------------------------------- Python integers

Wide(n) == <<n \div 65536, n % 65536>>

WAdd(a, b) ==
    LET s == a[2] + b[2] IN <<a[1] + b[1] + (s \div 65536), s % 65536>>

\* min(v, n) for a non-negative v and a small natural n
WClamp(v, n) == IF v[1] > 0 \/ v[2] > n THEN n ELSE v[2]

Ok(v) == [err |-> "none", val |-> v]
Raise(e) == [err |-> e, val |-> <<>>]

\* int.to_bytes(4, "little"): OverflowError unless 0 <= v < 2^32
to_bytes_wrap(v) ==
    Ok(<<v[2] % 256, v[2] \div 256, v[1] % 256, (v[1] \div 256) % 256>>)

to_bytes_big(v) ==
    IF v[1] < 0 \/ v[1] > 65535
    THEN Raise("OverflowError")
    ELSE Ok(<<v[1] \div 256, v[1] % 256, v[2] \div 256, v[2] % 256>>)

to_bytes(v) ==
    IF v[1] < 0 \/ v[1] > 65535
    THEN Raise("OverflowError")
    ELSE Ok(<<v[2] % 256, v[2] \div 256, v[1] % 256, v[1] \div 256>>)

\* int.from_bytes(bs, "little"), for at most 4 bytes
RECURSIVE from_bytes(_)
from_bytes(bs) ==
    IF bs = <<>>
    THEN <<0, 0>>
    ELSE LET r == from_bytes(Tail(bs))
         IN  WAdd(<<r[1] * 256 + (r[2] \div 256), (r[2] % 256) * 256>>,
                  <<0, Head(bs)>>)

\* data[a:b] for non-negative a and b: both ends are clamped to len(data)
Slice(bs, a, b) ==
    LET lo == WClamp(a, Len(bs))
        hi == WClamp(b, Len(bs))
    IN  SubSeq(bs, lo + 1, hi)

\* ------------------------------------------------------------------ UTF-8

IsSurrogate(cp) == cp >= 55296 /\ cp <= 57343

\* the UTF-8 bytes of one code point
EncodeChar(cp) ==
    IF cp < 128 THEN <<cp>>
    ELSE IF cp < 2048 THEN <<192 + (cp \div 64), 128 + (cp % 64)>>
    ELSE IF cp < 65536
         THEN <<224 + (cp \div 4096), 128 + ((cp \div 64) % 64), 128 + (cp % 64)>>
    ELSE <<240 + (cp \div 262144), 128 + ((cp \div 4096) % 64),
           128 + ((cp \div 64) % 64), 128 + (cp % 64)>>

\* str.encode("utf-8"): strict, a lone surrogate raises
RECURSIVE utf8_encode(_)
utf8_encode(s) ==
    IF s = <<>> THEN Ok(<<>>)
    ELSE IF IsSurrogate(Head(s)) THEN Raise("UnicodeEncodeError")
    ELSE LET rest == utf8_encode(Tail(s))
         IN  IF rest.err # "none" THEN rest
             ELSE Ok(EncodeChar(Head(s)) \o rest.val)

\* length of the sequence a lead byte opens, 0 for an invalid lead byte
SeqSize(b) ==
    IF b < 128 THEN 1
    ELSE IF b >= 194 /\ b <= 223 THEN 2
    ELSE IF b >= 224 /\ b <= 239 THEN 3
    ELSE IF b >= 240 /\ b <= 244 THEN 4
    ELSE 0

IsCont(b) == b >= 128 /\ b <= 191

\* the code point of a sequence of n bytes with valid continuation bytes
CodePoint(bs, n) ==
    IF n = 1 THEN bs[1]
    ELSE IF n = 2 THEN (bs[1] - 192) * 64 + (bs[2] - 128)
    ELSE IF n = 3 THEN (bs[1] - 224) * 4096 + (bs[2] - 128) * 64 + (bs[3] - 128)
    ELSE (bs[1] - 240) * 262144 + (bs[2] - 128) * 4096
         + (bs[3] - 128) * 64 + (bs[4] - 128)

\* shortest form, no surrogate, at most U+10FFFF
ScalarOfSize(cp, n) ==
    /\ ~IsSurrogate(cp)
    /\ cp <= 1114111
    /\ (n = 2 => cp >= 128)
    /\ (n = 3 => cp >= 2048)
    /\ (n = 4 => cp >= 65536)

\* bytes.decode("utf-8"): strict, an ill-formed or cut sequence raises
RECURSIVE utf8_decode(_)
utf8_decode(bs) ==
    IF bs = <<>> THEN Ok(<<>>)
    ELSE LET n == SeqSize(Head(bs))
         IN  IF \/ n = 0
                \/ Len(bs) < n
                \/ \E i \in 2..n : ~IsCont(bs[i])
                \/ ~ScalarOfSize(CodePoint(bs, n), n)
             THEN Raise("UnicodeDecodeError")
             ELSE LET rest == utf8_decode(SubSeq(bs, n + 1, Len(bs)))
                  IN  IF rest.err # "none" THEN rest
                      ELSE Ok(<<CodePoint(bs, n)>> \o rest.val)

\* ------------------------------------------------------------ the codec

encode_header(timestamp, key_size, value_size) ==
    LET encode_timestamp == to_bytes(timestamp)
        encode_key_size == to_bytes(key_size)
        encode_value_size == to_bytes(value_size)
    IN  IF encode_timestamp.err # "none" THEN encode_timestamp
        ELSE IF encode_key_size.err # "none" THEN encode_key_size
        ELSE IF encode_value_size.err # "none" THEN encode_value_size
        ELSE Ok(encode_timestamp.val \o encode_key_size.val \o encode_value_size.val)

encode_kv_charcount(timestamp, key, value) ==
    LET encode_key == utf8_encode(key)
        encode_value == utf8_encode(value)
    IN  IF encode_key.err # "none" THEN encode_key
        ELSE IF encode_value.err # "none" THEN encode_value
        ELSE LET encode_header_bytes ==
                     encode_header(timestamp, Wide(Len(key)), Wide(Len(value)))
             IN  IF encode_header_bytes.err # "none" THEN encode_header_bytes
                 ELSE Ok(<<timestamp,
                           encode_header_bytes.val \o encode_key.val \o encode_value.val>>)

encode_kv_swapped(timestamp, key, value) ==
    LET encode_key == utf8_encode(key)
        encode_value == utf8_encode(value)
    IN  IF encode_key.err # "none" THEN encode_key
        ELSE IF encode_value.err # "none" THEN encode_value
        ELSE LET encode_header_bytes ==
                     encode_header(timestamp, Wide(Len(encode_key.val)),
                                   Wide(Len(encode_value.val)))
             IN  IF encode_header_bytes.err # "none" THEN encode_header_bytes
                 ELSE Ok(<<timestamp,
                           encode_header_bytes.val \o encode_value.val \o encode_key.val>>)

\* returns (timestamp, bytes)
encode_kv(timestamp, key, value) ==
    LET encode_key == utf8_encode(key)
        encode_value == utf8_encode(value)
    IN  IF encode_key.err # "none" THEN encode_key
        ELSE IF encode_value.err # "none" THEN encode_value
        ELSE LET encode_header_bytes ==
                     encode_header(timestamp, Wide(Len(encode_key.val)),
                                   Wide(Len(encode_value.val)))
             IN  IF encode_header_bytes.err # "none" THEN encode_header_bytes
                 ELSE Ok(<<timestamp,
                           encode_header_bytes.val \o encode_key.val \o encode_value.val>>)

decode_header_big(d) ==
    LET Rev(bs) == [i \in 1..Len(bs) |-> bs[Len(bs) + 1 - i]]
    IN  Ok(<<from_bytes(Rev(Slice(d, Wide(0), Wide(4)))),
             from_bytes(Rev(Slice(d, Wide(4), Wide(8)))),
             from_bytes(Rev(Slice(d, Wide(8), Wide(12))))>>)

decode_header_open(d) ==
    Ok(<<from_bytes(Slice(d, Wide(0), Wide(4))),
         from_bytes(Slice(d, Wide(4), Wide(8))),
         from_bytes(Slice(d, Wide(8), Wide(13)))>>)

decode_header(d) ==
    LET timestamp == from_bytes(Slice(d, Wide(0), Wide(4)))
        key_size == from_bytes(Slice(d, Wide(4), Wide(8)))
        value_size == from_bytes(Slice(d, Wide(8), Wide(12)))
    IN  Ok(<<timestamp, key_size, value_size>>)

decode_kv_shortend(d) ==
    LET h == decode_header(Slice(d, Wide(0), Wide(12))).val
        key_size == h[2]
        value_size == h[3]
        key == utf8_decode(Slice(d, Wide(12), WAdd(Wide(12), key_size)))
        value == utf8_decode(Slice(d, WAdd(Wide(12), key_size),
                                   WAdd(Wide(12), value_size)))
    IN  IF key.err # "none" THEN key
        ELSE IF value.err # "none" THEN value
        ELSE Ok(<<h[1], key.val, value.val>>)

decode_kv_open(d) ==
    LET h == decode_header(Slice(d, Wide(0), Wide(12))).val
        key_size == h[2]
        key == utf8_decode(Slice(d, Wide(12), WAdd(Wide(12), key_size)))
        value == utf8_decode(Slice(d, WAdd(Wide(12), key_size), Wide(Len(d))))
    IN  IF key.err # "none" THEN key
        ELSE IF value.err # "none" THEN value
        ELSE Ok(<<h[1], key.val, value.val>>)

decode_kv(d) ==
    LET h == decode_header(Slice(d, Wide(0), Wide(12))).val
        timestamp == h[1]
        key_size == h[2]
        value_size == h[3]
        key == utf8_decode(Slice(d, Wide(12), WAdd(Wide(12), key_size)))
        value == utf8_decode(Slice(d, WAdd(Wide(12), key_size),
                                   WAdd(WAdd(Wide(12), key_size), value_size)))
    IN  IF key.err # "none" THEN key
        ELSE IF value.err # "none" THEN value
        ELSE Ok(<<timestamp, key.val, value.val>>)

\* ------------------------------------------------------------ the inputs

\* 0, 1, the spec's sample time, 2^32-1, and the two nearest values out of range
Ints == {Wide(0), Wide(1), Wide(1700000000), <<65535, 65535>>, Wide(-1), <<65536, 0>>}

\* the timestamps given to encode_kv
KvTimes == {Wide(0), Wide(1700000000), <<65535, 65535>>, <<65536, 0>>}

\* 'a', U+00E9 (2 bytes) and a lone surrogate (a str may hold one)
KeyChars == {97, 233, 55296}
\* U+20AC (3 bytes) and U+1F600 (4 bytes)
ValChars == {8364, 128512}

Strs(chars, n) == UNION {[1..k -> chars] : k \in 0..n}

\* bytes a caller may hand over after a header or a record
Trails == {<<0>>, <<255, 97>>}

NoResult == [err |-> "none", val |-> <<>>]

\* ------------------------------------------------ single calls on a medium

Init ==
    /\ encFn = "none"
    /\ args = <<Wide(0), <<>>, <<>>>>
    /\ encErr = "none"
    /\ data = <<>>
    /\ shape = "exact"
    /\ decFn = "none"
    /\ out = NoResult
    /\ prev = <<>>
    /\ log = <<>>
    /\ written = <<>>
    /\ offset = Wide(0)
    /\ hdrs = <<>>
    /\ got = <<>>
    /\ rdErr = "none"

\* The codec keeps no state between calls: every call sequence starts from a
\* medium that holds nothing, and Release returns to it.
\* the caller encodes a header and stores what encode_header returned
EncodeHeader ==
    \E t \in Ints, ks \in Ints, vs \in Ints :
        LET r == encode_header(t, ks, vs)
        IN  /\ encFn = "none"
            /\ encFn' = "encode_header"
            /\ args' = <<t, ks, vs>>
            /\ encErr' = r.err
            /\ data' = r.val
            /\ shape' = "exact"
            /\ decFn' = "none"
            /\ out' = NoResult
            /\ prev' = <<>>
            /\ UNCHANGED streamVars

\* the caller encodes a record and stores the bytes encode_kv returned
EncodeKv ==
    \E t \in KvTimes, key \in Strs(KeyChars, MaxLen), value \in Strs(ValChars, MaxLen) :
        LET r == encode_kv(t, key, value)
        IN  /\ encFn = "none"
            /\ encFn' = "encode_kv"
            /\ args' = <<t, key, value>>
            /\ encErr' = r.err
            /\ data' = IF r.err = "none" THEN r.val[2] ELSE <<>>
            /\ shape' = "exact"
            /\ decFn' = "none"
            /\ out' = NoResult
            /\ prev' = <<>>
            /\ UNCHANGED streamVars

\* the medium hands back only the first n bytes of what was stored
Truncate ==
    /\ encErr = "none"
    /\ shape = "exact"
    /\ \E n \in 0..(Len(data) - 1) :
        /\ data' = SubSeq(data, 1, n)
        /\ shape' = "truncated"
        /\ decFn' = "none"
        /\ out' = NoResult
        /\ prev' = <<>>
        /\ UNCHANGED <<encFn, args, encErr>>
        /\ UNCHANGED streamVars

\* further bytes follow what was stored
Extend ==
    /\ encErr = "none"
    /\ encFn # "none"
    /\ shape = "exact"
    /\ \E x \in Trails :
        /\ data' = data \o x
        /\ shape' = "extended"
        /\ decFn' = "none"
        /\ out' = NoResult
        /\ UNCHANGED <<encFn, args, encErr, prev>>
        /\ UNCHANGED streamVars

DecodeHeader ==
    /\ encErr = "none"
    /\ encFn # "none"
    /\ decFn' = "decode_header"
    /\ out' = decode_header(data)
    /\ prev' = IF shape = "exact" THEN <<out'>> ELSE prev
    /\ UNCHANGED <<encFn, args, encErr, data, shape>>
    /\ UNCHANGED streamVars

DecodeKv ==
    /\ encErr = "none"
    /\ encFn # "none"
    /\ decFn' = "decode_kv"
    /\ out' = decode_kv(data)
    /\ UNCHANGED <<encFn, args, encErr, data, shape, prev>>
    /\ UNCHANGED streamVars

\* the caller drops the buffer and its results
Release ==
    /\ encFn # "none"
    /\ encFn' = "none"
    /\ args' = <<Wide(0), <<>>, <<>>>>
    /\ encErr' = "none"
    /\ data' = <<>>
    /\ shape' = "exact"
    /\ decFn' = "none"
    /\ out' = NoResult
    /\ prev' = <<>>
    /\ UNCHANGED streamVars

Next ==
    \/ EncodeHeader
    \/ EncodeKv
    \/ Truncate
    \/ Extend
    \/ DecodeHeader
    \/ DecodeKv
    \/ Release

Spec == Init /\ [][Next]_vars

\* ------------------------------------------------- a stream of records

StreamTimes == {Wide(1700000000), <<65535, 65535>>}
StreamKeyChars == {233}
StreamValChars == {128512}

\* the writer appends encode_kv's bytes to the log, before the reader starts
AppendRecord ==
    /\ Len(written) < MaxRecords
    /\ hdrs = <<>>
    /\ rdErr = "none"
    /\ \E t \in StreamTimes, key \in Strs(StreamKeyChars, MaxStreamLen),
          value \in Strs(StreamValChars, MaxStreamLen) :
        LET r == encode_kv(t, key, value)
        IN  /\ r.err = "none"
            /\ log' = log \o r.val[2]
            /\ written' = Append(written, <<t, key, value>>)
    /\ UNCHANGED <<offset, hdrs, got, rdErr>>
    /\ UNCHANGED codecVars

\* the reader decodes the header at the offset, then the record from the offset
\* onward, and advances by 12 + key_size + value_size
ReadRecord ==
    /\ rdErr = "none"
    /\ offset # Wide(Len(log))
    /\ LET h == decode_header(Slice(log, offset, WAdd(offset, Wide(12))))
           r == decode_kv(Slice(log, offset, Wide(Len(log))))
       IN  IF r.err # "none"
           THEN /\ rdErr' = r.err
                /\ UNCHANGED <<offset, hdrs, got>>
           ELSE /\ hdrs' = Append(hdrs, h.val)
                /\ got' = Append(got, r.val)
                /\ offset' = WAdd(WAdd(offset, Wide(12)), WAdd(h.val[2], h.val[3]))
                /\ UNCHANGED rdErr
    /\ UNCHANGED <<log, written>>
    /\ UNCHANGED codecVars

\* the log is dropped
ResetStream ==
    /\ written # <<>>
    /\ log' = <<>>
    /\ written' = <<>>
    /\ offset' = Wide(0)
    /\ hdrs' = <<>>
    /\ got' = <<>>
    /\ rdErr' = "none"
    /\ UNCHANGED codecVars

NextStream == AppendRecord \/ ReadRecord \/ ResetStream

SpecStream == Init /\ [][NextStream]_vars

\* ------------------------------------------------------------ the claims

InRange(v) == v[1] >= 0 /\ v[1] <= 65535

IsText(s) == \A i \in 1..Len(s) : ~IsSurrogate(s[i])

\* UTF-8 size of a code point, from the ranges of the encoding form
CharSize(cp) == IF cp < 128 THEN 1 ELSE IF cp < 2048 THEN 2 ELSE IF cp < 65536 THEN 3 ELSE 4

RECURSIVE ByteLen(_)
ByteLen(s) == IF s = <<>> THEN 0 ELSE CharSize(Head(s)) + ByteLen(Tail(s))

\* the integer whose little-endian bytes are bs[i..i+3]
LEField(bs, i) == <<bs[i + 2] + 256 * bs[i + 3], bs[i] + 256 * bs[i + 1]>>

WLess(a, b) == a[1] < b[1] \/ (a[1] = b[1] /\ a[2] < b[2])

\* 12 + key_size + value_size, as declared by the header of a buffer of >= 12 bytes
DeclaredLen(bs) == WAdd(Wide(12), WAdd(LEField(bs, 5), LEField(bs, 9)))

\* C1: a valid (timestamp, key, value) is encoded by encode_kv without error, and
\* decode_kv of exactly the bytes encode_kv returned gives back (timestamp, key, value).
C1_RecordRoundTrip ==
    /\ (encFn = "encode_kv" /\ InRange(args[1]) /\ IsText(args[2]) /\ IsText(args[3]))
           => encErr = "none"
    /\ (encFn = "encode_kv" /\ shape = "exact" /\ decFn = "decode_kv")
           => (out.err = "none" /\ out.val = args)

C1_Witness ==
    /\ encFn = "encode_kv" /\ shape = "exact" /\ decFn = "decode_kv"
    /\ args = <<(<<65535, 65535>>), <<97, 233>>, <<8364, 128512>>>>
    /\ out.val = args

\* C2: a header triple with every component in [0, 2^32-1] is encoded by
\* encode_header without error, and decode_header of the 12 bytes gives it back.
C2_HeaderRoundTrip ==
    /\ (encFn = "encode_header" /\ InRange(args[1]) /\ InRange(args[2]) /\ InRange(args[3]))
           => encErr = "none"
    /\ (encFn = "encode_header" /\ shape = "exact" /\ decFn = "decode_header")
           => (out.err = "none" /\ out.val = args)

C2_Witness ==
    /\ encFn = "encode_header" /\ shape = "exact" /\ decFn = "decode_header"
    /\ args = <<(<<65535, 65535>>), Wide(0), Wide(1700000000)>>
    /\ out.val = args

\* C3 (as claimed): decode_kv of a buffer shorter than the 12 + key_size +
\* value_size its header declares fails with TruncatedInput.
C3_TruncationDetected ==
    (decFn = "decode_kv" /\ Len(data) >= 12 /\ WLess(Wide(Len(data)), DeclaredLen(data)))
        => out.err = "TruncatedInput"

\* C4: encode_header given a negative value or one above 2^32-1 raises and returns
\* no bytes, and so does encode_kv given such a timestamp.
C4_OutOfRangeRejected ==
    /\ (encFn = "encode_header" /\ \E i \in 1..3 : ~InRange(args[i]))
           => (encErr = "OverflowError" /\ data = <<>>)
    /\ (encFn = "encode_kv" /\ ~InRange(args[1]))
           => (encErr # "none" /\ data = <<>>)

C4_Witness ==
    /\ encFn = "encode_header"
    /\ args = <<Wide(0), (<<65536, 0>>), Wide(1)>>
    /\ encErr = "OverflowError"
    /\ data = <<>>

\* C5: the key_size and value_size fields of encode_kv's output are the UTF-8 byte
\* lengths of key and value; with a multi-byte character in the key, key_size
\* exceeds the number of characters.
C5_LengthFidelity ==
    (encFn = "encode_kv" /\ encErr = "none" /\ shape = "exact") =>
        /\ Len(data) >= 12
        /\ LEField(data, 5) = Wide(ByteLen(args[2]))
        /\ LEField(data, 9) = Wide(ByteLen(args[3]))
        /\ (\E i \in 1..Len(args[2]) : args[2][i] >= 128)
               => WLess(Wide(Len(args[2])), LEField(data, 5))

C5_Witness ==
    /\ encFn = "encode_kv" /\ encErr = "none" /\ shape = "exact"
    /\ args[2] = <<97, 233>>
    /\ args[3] = <<128512>>
    /\ LEField(data, 5) = Wide(3)
    /\ LEField(data, 9) = Wide(4)

\* C6: for in-range arguments encode_header returns exactly 12 bytes, the
\* little-endian timestamp in [0:4], key_size in [4:8], value_size in [8:12].
C6_HeaderLayout ==
    (encFn = "encode_header" /\ encErr = "none" /\ shape = "exact") =>
        /\ Len(data) = 12
        /\ \A i \in 1..12 : data[i] \in 0..255
        /\ LEField(data, 1) = args[1]
        /\ LEField(data, 5) = args[2]
        /\ LEField(data, 9) = args[3]

C6_Witness ==
    /\ encFn = "encode_header" /\ encErr = "none" /\ shape = "exact"
    /\ args = <<Wide(1700000000), Wide(1), (<<65535, 65535>>)>>
    /\ data = <<0, 241, 83, 101, 1, 0, 0, 0, 255, 255, 255, 255>>

\* C7: encode_kv's bytes are the 12-byte header, then the UTF-8 bytes of key, then
\* the UTF-8 bytes of value, and nothing more; an empty key and value give 12 bytes.
C7_RecordLayout ==
    (encFn = "encode_kv" /\ encErr = "none" /\ shape = "exact") =>
        LET ks == ByteLen(args[2])
            vs == ByteLen(args[3])
        IN  /\ Len(data) = 12 + ks + vs
            /\ LEField(data, 1) = args[1]
            /\ LEField(data, 5) = Wide(ks)
            /\ LEField(data, 9) = Wide(vs)
            /\ SubSeq(data, 13, 12 + ks) = utf8_encode(args[2]).val
            /\ SubSeq(data, 13 + ks, 12 + ks + vs) = utf8_encode(args[3]).val
            /\ (args[2] = <<>> /\ args[3] = <<>>) => Len(data) = 12

C7_Witness ==
    /\ encFn = "encode_kv" /\ encErr = "none" /\ shape = "exact"
    /\ args[2] = <<233>>
    /\ args[3] = <<8364>>
    /\ SubSeq(data, 13, 17) = <<195, 169, 226, 130, 172>>
    /\ Len(data) = 17

\* C8 (as claimed): a decode call given fewer than 12 bytes reports TruncatedInput.
C8_ShortHeaderDetected ==
    (decFn \in {"decode_header", "decode_kv"} /\ Len(data) < 12)
        => out.err = "TruncatedInput"

\* C9: decode_header of a 12-byte header followed by further bytes returns what
\* decode_header of the 12 bytes alone returned.
C9_TrailingIgnored ==
    (encFn = "encode_header" /\ shape = "extended" /\ decFn = "decode_header"
        /\ prev # <<>>)
        => out = prev[1]

C9_Witness ==
    /\ encFn = "encode_header" /\ shape = "extended" /\ decFn = "decode_header"
    /\ prev # <<>>
    /\ Len(data) = 14
    /\ data[13] = 255
    /\ out = prev[1]
    /\ out.val = <<Wide(1), Wide(0), (<<65535, 65535>>)>>

\* C10: reading the concatenated records from offset 0 (decode_header at the
\* offset, decode_kv from the offset onward, advance by 12 + key_size +
\* value_size) never fails, recovers the written triples in order with the sizes
\* of each, and has read them all exactly when the offset is the log's length.
C10_StreamParsing ==
    /\ rdErr = "none"
    /\ Len(got) <= Len(written)
    /\ Len(hdrs) = Len(got)
    /\ \A i \in 1..Len(got) :
        /\ got[i] = written[i]
        /\ hdrs[i] = <<written[i][1], Wide(ByteLen(written[i][2])),
                       Wide(ByteLen(written[i][3]))>>
    /\ (Len(got) = Len(written)) <=> (offset = Wide(Len(log)))

C10_Witness ==
    /\ Len(written) = 2
    /\ got = written
    /\ offset = Wide(Len(log))
    /\ written[1] = <<Wide(1700000000), <<233>>, <<128512>>>>
    /\ written[2] = <<(<<65535, 65535>>), <<>>, <<128512>>>>

====
